---- MODULE Spec2Model ----
(***************************************************************************)
(* Model of PivotExtractor.extractPivotData (src/src/pivot-extractor.js).  *)
(* One call of extractPivotData is one behaviour: the options and the cube *)
(* are chosen in Init, every await of the function is a control position   *)
(* (pc), and the engine's answer to each request is chosen by the          *)
(* environment.  A cube row is modelled by its row number, so the matrix   *)
(* of a page that starts at qTop and holds n rows is <<qTop, ..., qTop+n-1>>.*)
(*                                                                         *)
(* The other components have their own specifications further down:        *)
(* formatPivotData and exportToCSV (FormatSpec), the response interceptor  *)
(* of the session (InterceptSpec), FieldSelector.selectFieldValue          *)
(* (SelectSpec) and QlikPivotDataExtractor.run (RunSpec).  Each            *)
(* specification runs one component and holds the variables of the others  *)
(* at rest.                                                                *)
(***************************************************************************)
EXTENDS Integers, Sequences, FiniteSets, TLC

\* ------------------------------------------------------------------ bounds
MaxTotalRows == 4
MaxPageSize  == 2
MaxPagesCap  == 3
MaxStartRow  == 1
LargeTotalRows == 25
LargePageSize  == 24
FetchCap     == 3
AbortCap     == 4
FallbackCap  == 2
MaxDimensions == 2
MaxMeasures   == 1
MaxCells      == 2
MaxDataRows   == 2
MaxRequests   == 2
MaxCalls      == 2
CubeColumns   == 2
MaxSelections == 2
MaxLayoutPages == 2
MaxCleanSmall == 2

\* ------------------------------------------------------- program constants
MinPageSize == 10
MaxRetries  == 3
startCol    == 0
DefaultPageSize == 1000
DefaultMaxPages == 10
CleanPageSize == 100
SafetyLimit == 100

VARIABLES
    pc,              \* control position inside extractPivotData
    options,         \* [pageSize, maxPages, startRow]
    hypercube,       \* [qMode, qcy] of the layout
    allData,         \* rows assembled so far
    currentRow,
    pagesProcessed,
    rowsToFetch,     \* height computed at the head of the current iteration
    request,         \* the outstanding engine request, NoRequest if none
    exit,            \* which statement ended the loop
    fetchCount,      \* requests issued so far (saturating)
    abortedRetries,  \* consecutive re-issues of one window after aborted faults
    fallbackCount,   \* straight-table fallback retries issued (saturating)
    onlyExact,       \* every answer so far was the full requested window
    onlyOneRow,      \* every answer so far was a page of exactly one row
    onlyMismatch,    \* every answer so far was a mode-mismatch fault
    scenario,        \* answers so far: "p0","p1","p2" pages only, then "p2fatal"
    firstTwoPages,   \* the rows the first two answers carried, when both were pages
    lastFault,       \* kind of the fault the last answer carried, NoFault if it carried none
    minShrunk,       \* smallest height of a reduced-size retry so far, 0 if none
    lastPage,        \* [qTop, rows] of the last page appended to allData
    pagesAppended,   \* number of pages appended to allData
    cancelRequested, \* the caller has asked for the extraction to stop
    \* formatPivotData / exportToCSV
    fmtPc,           \* "rest", "start", "formatted", "formattedTwice"
    extractedData,   \* the extraction result handed to formatPivotData
    givenData,       \* the extraction result as it was handed over
    formattedData,   \* what the first formatPivotData call returned
    formattedAgain,  \* what the second formatPivotData call returned
    exported,        \* exportToCSV has returned
    csv,             \* the text exportToCSV returned, one character per element
    \* the response interceptor of the session
    requests,        \* per request: [state, tries, sends, aborted, error]
    \* FieldSelector.selectFieldValue
    selPc,           \* control position inside selectFieldValue
    selCall,         \* [fieldName, value] of the call
    callNo,          \* how many times the call has been made
    selected,        \* the engine's selection state: field -> selected values
    liveObjects,     \* the list objects that exist in the engine session
    listObject,      \* the list object of the running call, 0 if none
    qSuccess,        \* what selectListObjectValues resolved with, per call
    selectedBefore,  \* the selection state when the previous call returned
    \* FieldSelector.makeSelections
    msPc,            \* control position inside makeSelections
    selections,      \* the list of [fieldName, value] handed over
    msIndex,         \* position of the loop in the list, from 1
    clearCalls,      \* invocations of doc.clearAll
    attempts,        \* the selections handed to selectFieldValue, in order
    \* QlikPivotDataExtractor.run
    runPc,           \* control position inside run
    config,          \* [enableTrafficLogging, debugFields, zavodValue, yearMonthValue]
    sessionManager,  \* "null" or "created"
    session,         \* SessionManager.session: "null" or "set"
    global,          \* SessionManager.global: "null" or "set"
    doc,             \* SessionManager.doc: "null" or "set"
    completion,      \* how the try/catch of run completed: stage that threw, "none"
    outcome,         \* how run settled: "pending", "resolved" or the error it rejects with
    failedStage,     \* the stage whose await rejected, "none" if none did
    closeCalls,      \* invocations of SessionManager.close
    closeFailed,     \* session.close() rejected
    fetchIssued,     \* extractPivotData has asked the engine for a page
    \* PivotExtractor.extractPivotDataSimple
    simPc,           \* control position inside extractPivotDataSimple
    simLayout,       \* the layout its getLayout resolved with, if it did
    simResult,       \* the value it returned
    invocations,     \* calls of extractPivotData it has made
    \* extractCleanPivot: the paging loop
    cleanPc,         \* control position inside the loop
    cleanTotalRows,  \* hypercube.qSize.qcy of the layout
    currentPage,     \* the loop's page counter
    cleanRequest,    \* the window of the getHyperCubeData call awaited
    cleanRows,       \* allData.length
    requestCount     \* getHyperCubeData calls made so far

extractVars == <<pc, options, hypercube, allData, currentRow, pagesProcessed,
          rowsToFetch, request, exit, fetchCount, abortedRetries,
          fallbackCount, onlyExact, onlyOneRow, onlyMismatch,
          scenario, firstTwoPages, lastFault, minShrunk, lastPage,
          pagesAppended, cancelRequested>>

formatVars == <<fmtPc, extractedData, givenData, formattedData,
                formattedAgain, exported, csv>>

interceptVars == <<requests>>

selectVars == <<selPc, selCall, callNo, selected, liveObjects, listObject,
                qSuccess, selectedBefore>>

makeSelVars == <<msPc, selections, msIndex, clearCalls, attempts>>

runVars == <<runPc, config, sessionManager, session, global, doc,
             completion, outcome, failedStage, closeCalls, closeFailed,
             fetchIssued>>

simpleVars == <<simPc, simLayout, simResult, invocations>>

cleanVars == <<cleanPc, cleanTotalRows, currentPage, cleanRequest,
               cleanRows, requestCount>>

\* the variables outside extractPivotData
others == <<formatVars, interceptVars, selectVars, makeSelVars, runVars,
            simpleVars, cleanVars>>

vars == <<extractVars, formatVars, interceptVars, selectVars, makeSelVars,
          runVars, simpleVars, cleanVars>>

\* the variables outside each of the other components
outsideFormat    == <<extractVars, interceptVars, selectVars, makeSelVars,
                      runVars, simpleVars, cleanVars>>
outsideIntercept == <<extractVars, formatVars, selectVars, makeSelVars,
                      runVars, simpleVars, cleanVars>>
outsideSelect    == <<extractVars, formatVars, interceptVars, makeSelVars,
                      runVars, simpleVars, cleanVars>>
outsideMakeSel   == <<extractVars, formatVars, interceptVars, runVars,
                      simpleVars, cleanVars>>
outsideRun       == <<extractVars, formatVars, interceptVars, selectVars,
                      makeSelVars, simpleVars, cleanVars>>
outsideSimple    == <<formatVars, interceptVars, selectVars, makeSelVars,
                      runVars, cleanVars>>
outsideClean     == <<extractVars, formatVars, interceptVars, selectVars,
                      makeSelVars, runVars, simpleVars>>

Min(a, b) == IF a < b THEN a ELSE b
Max(a, b) == IF a > b THEN a ELSE b

\* ------------------------------------------------------------ the engine
NoRequest == [method |-> "none", qTop |-> 0, qLeft |-> 0,
              qHeight |-> 0, qWidth |-> 0]

\* columnCount || hypercube.qSize.qcx (line 58); run passes no columnCount
totalCols == CubeColumns

\* the window of a request (lines 79-92, 122-127, 145-150)
Request(method, top, height) ==
    [method |-> method, qTop |-> top, qLeft |-> startCol,
     qHeight |-> height, qWidth |-> totalCols]

\* rows qTop .. qTop+n-1 of the cube
Matrix(top, n) == [i \in 1..n |-> top + i - 1]

\* Faults the engine can reject a request with: an error code and a parameter.
Faults ==
    { [code |-> "6001", parameter |-> "none"],
      [code |-> "other", parameter |-> "Page(s) too large"],
      [code |-> "6002", parameter |-> "none"],
      [code |-> "other", parameter |-> "Not in pivot mode"],
      [code |-> "LOCERR_GENERIC_ABORTED", parameter |-> "none"],
      [code |-> "other", parameter |-> "none"] }

\* Row counts a resolved request for (top, height) can carry: the full window
\* (cut at the end of the cube), or fewer rows (server truncation).
ReturnedCounts(top, height) ==
    LET full == Max(0, Min(height, hypercube.qcy - top))
    IN  {full, full - 1, 1} \cap (0..full)

\* pageData values of a resolved request: no page, a page without a matrix,
\* or one page with a matrix.
PageDatas(top, height) ==
    { <<>>, << [hasMatrix |-> FALSE, qMatrix |-> <<>>] >> }
    \cup { << [hasMatrix |-> TRUE, qMatrix |-> Matrix(top, n)] >> :
             n \in ReturnedCounts(top, height) }

\* ------------------------------------------------- extractPivotData: pure
totalRows == hypercube.qcy

\* the loop as it would be if it only ran while a whole page is left
LoopConditionWholePages ==
    currentRow + options.pageSize <= totalRows
        /\ pagesProcessed < options.maxPages

\* the loop as it would be with <= in the page-count test
LoopConditionOffByOne ==
    currentRow < totalRows /\ pagesProcessed <= options.maxPages

LoopCondition ==
    currentRow < totalRows /\ pagesProcessed < options.maxPages

RowsToFetch == Min(options.pageSize, totalRows - currentRow)

FirstMethod ==
    IF hypercube.qMode = "EQ_DATA_MODE_PIVOT"
    THEN "getHyperCubePivotData" ELSE "getHyperCubeData"

HasMatrix(pageData) == Len(pageData) > 0 /\ pageData[1].hasMatrix

IsPageTooLarge(e) == e.code = "6001" \/ e.parameter = "Page(s) too large"

IsNotPivotMode(e) == e.code = "6002" \/ e.parameter = "Not in pivot mode"

IsAborted(e) == e.code = "LOCERR_GENERIC_ABORTED"

\* the reduced height as it would be without the floor of 10 rows
NewPageSizeNoFloor(h) == h \div 2

NewPageSize(h) == Max(MinPageSize, h \div 2)

\* the first-attempt path as it would be without the cursor update
AdvanceFirstStuck(row, requested, returned) == row

AdvanceFirst(row, requested, returned) == row + requested

\* the reduced-size path as it would be if it took the missing rows back
AdvanceReducedRewinds(row, requested, returned) ==
    row + returned - requested

AdvanceReduced(row, requested, returned) == row + returned

AdvanceStraight(row, requested, returned) == row + requested

\* the result as it would be if extractedRows were taken from the cursor
ReturnValueCountsCursor ==
    [ data |-> allData,
      metadata |-> [ totalRows      |-> totalRows,
                     extractedRows  |-> currentRow - options.startRow,
                     pageSize       |-> options.pageSize,
                     pagesProcessed |-> pagesProcessed ] ]

\* the returned object (lines 176-187)
ReturnValue ==
    [ data |-> allData,
      metadata |-> [ totalRows      |-> totalRows,
                     extractedRows  |-> Len(allData),
                     pageSize       |-> options.pageSize,
                     pagesProcessed |-> pagesProcessed ] ]

\* metadata.terminationReason as a caller reads it
TerminationReason ==
    IF "terminationReason" \in DOMAIN ReturnValue.metadata
    THEN ReturnValue.metadata["terminationReason"] ELSE "undefined"

\* ------------------------------------------------------------ observation
Sat(n, cap) == Min(n + 1, cap)

NoFault == "none"

NoPage == [qTop |-> -1, rows |-> 0]

\* "p<k>": the first k answers were pages and nothing else was answered;
\* "p2fatal": two pages, then a fatal fault; "other": any other history.
ScenarioAfter(kind) ==
    IF scenario = "p0" /\ kind = "page" THEN "p1"
    ELSE IF scenario = "p1" /\ kind = "page" THEN "p2"
    ELSE IF scenario = "p2" /\ kind = "fatal" THEN "p2fatal"
    ELSE "other"

\* the answer to the outstanding request is a page with n rows
ObservePage(n) ==
    /\ onlyExact' = (onlyExact /\ n = request.qHeight)
    /\ onlyOneRow' = (onlyOneRow /\ n = 1)
    /\ onlyMismatch' = FALSE
    /\ scenario' = ScenarioAfter("page")
    /\ firstTwoPages' = IF scenario \in {"p0", "p1"}
                        THEN firstTwoPages \o Matrix(request.qTop, n)
                        ELSE firstTwoPages
    /\ lastPage' = [qTop |-> request.qTop, rows |-> n]
    /\ pagesAppended' = pagesAppended + 1
    /\ lastFault' = NoFault

ObserveNoData ==
    /\ onlyExact' = FALSE
    /\ onlyOneRow' = FALSE
    /\ onlyMismatch' = FALSE
    /\ scenario' = ScenarioAfter("nodata")
    /\ lastFault' = NoFault
    /\ UNCHANGED <<firstTwoPages, lastPage, pagesAppended>>

FaultKind(e) ==
    IF IsPageTooLarge(e) THEN "capacity"
    ELSE IF IsNotPivotMode(e) THEN "mismatch"
    ELSE IF IsAborted(e) THEN "aborted"
    ELSE "fatal"

ObserveFault(e) ==
    /\ onlyExact' = FALSE
    /\ onlyOneRow' = FALSE
    /\ onlyMismatch' = (onlyMismatch /\ FaultKind(e) = "mismatch")
    /\ scenario' = ScenarioAfter(FaultKind(e))
    /\ lastFault' = FaultKind(e)
    /\ UNCHANGED <<firstTwoPages, lastPage, pagesAppended>>

\* ------------------------------------------- formatPivotData, exportToCSV
\* Texts are sequences of one-character strings, so that joining and
\* splitting them is computed character by character.
LF    == "\n"
Comma == ","
Quote == "\""

SeqsUpTo(S, n) == UNION { [1..k -> S] : k \in 0..n }

\* display names of the descriptors; two descriptors may bear the same one
Titles == { <<"A">>, <<"B">> }

Descriptors == { [qFallbackTitle |-> t] : t \in Titles }

\* the cell at position j of a row; in a "multiline" row the first cell's
\* text holds a line break
Cell(j, kind) ==
    [ qText  |-> IF kind = "multiline" /\ j = 1
                 THEN <<"v", LF, ToString(j)>> ELSE <<"v", ToString(j)>>,
      qNum   |-> j,
      qState |-> IF j = 1 THEN "S" ELSE "O" ]

RowsIn == { [j \in 1..n |-> Cell(j, kind)] :
              n \in 0..MaxCells, kind \in {"plain", "multiline"} }

ExtractionResults ==
    [ data     : SeqsUpTo(RowsIn, MaxDataRows),
      metadata : [ dimensions : SeqsUpTo(Descriptors, MaxDimensions),
                   measures   : SeqsUpTo(Descriptors, MaxMeasures) ] ]

\* a value no call has produced yet
Undefined == [undefined |-> TRUE]

\* forEach(... headers.push({name, type, index: headers.length}))
\* (lines 239-254)
RECURSIVE PushHeaders(_, _, _)
PushHeadersOneBased(headers, descriptors, type) ==
    IF descriptors = <<>> THEN headers
    ELSE PushHeaders(Append(headers,
                            [ name  |-> Head(descriptors).qFallbackTitle,
                              type  |-> type,
                              index |-> Len(headers) + 1 ]),
                     Tail(descriptors), type)

PushHeaders(headers, descriptors, type) ==
    IF descriptors = <<>> THEN headers
    ELSE PushHeaders(Append(headers,
                            [ name  |-> Head(descriptors).qFallbackTitle,
                              type  |-> type,
                              index |-> Len(headers) ]),
                     Tail(descriptors), type)

\* formattedRow[header.name] = {...}: the property is created or overwritten
SetField(object, name, value) ==
    [ n \in (DOMAIN object) \cup {name} |->
        IF n = name THEN value ELSE object[n] ]

\* the field built from a cell (lines 263-267)
Field(cell) ==
    [ text |-> cell.qText, number |-> cell.qNum, state |-> cell.qState ]

\* row.forEach((cell, cellIndex) => ...) from position cellIndex on
\* (lines 260-269); a cell without a header is skipped
RECURSIVE FormatCells(_, _, _, _)
FormatCells(formattedRow, row, cellIndex, headers) ==
    IF cellIndex > Len(row) THEN formattedRow
    ELSE FormatCells(
           IF cellIndex <= Len(headers)
           THEN SetField(formattedRow, headers[cellIndex].name,
                         Field(row[cellIndex]))
           ELSE formattedRow,
           row, cellIndex + 1, headers)

\* formatPivotData as it would be if the summary counted the dimensions only
formatPivotDataCountsDimensions(extracted) ==
    LET data     == extracted.data
        metadata == extracted.metadata
        headers  == PushHeaders(PushHeaders(<<>>, metadata.dimensions,
                                            "dimension"),
                                metadata.measures, "measure")
        formattedRows ==
            [ r \in 1..Len(data) |->
                [ index |-> r - 1,
                  data  |-> FormatCells(<<>>, data[r], 1, headers) ] ]
    IN  [ headers  |-> headers,
          rows     |-> formattedRows,
          metadata |-> metadata,
          summary  |-> [ totalRows    |-> Len(formattedRows),
                         totalColumns |-> Len(metadata.dimensions),
                         dimensions   |-> Len(metadata.dimensions),
                         measures     |-> Len(metadata.measures) ] ]

\* formatPivotData (lines 232-288)
formatPivotData(extracted) ==
    LET data     == extracted.data
        metadata == extracted.metadata
        headers  == PushHeaders(PushHeaders(<<>>, metadata.dimensions,
                                            "dimension"),
                                metadata.measures, "measure")
        formattedRows ==
            [ r \in 1..Len(data) |->
                [ index |-> r - 1,
                  data  |-> FormatCells(<<>>, data[r], 1, headers) ] ]
    IN  [ headers  |-> headers,
          rows     |-> formattedRows,
          metadata |-> metadata,
          summary  |-> [ totalRows    |-> Len(formattedRows),
                         totalColumns |-> Len(headers),
                         dimensions   |-> Len(metadata.dimensions),
                         measures     |-> Len(metadata.measures) ] ]

\* Array.prototype.join over texts
RECURSIVE Join(_, _)
Join(texts, separator) ==
    IF texts = <<>> THEN <<>>
    ELSE IF Len(texts) = 1 THEN texts[1]
    ELSE texts[1] \o <<separator>> \o Join(Tail(texts), separator)

\* the entry as it would be if a missing field were written without quotes
CsvEntryBare(row, header) ==
    IF header.name \in DOMAIN row.data
    THEN <<Quote>> \o row.data[header.name].text \o <<Quote>>
    ELSE <<>>

\* one entry of a data line (lines 299-301)
CsvEntry(row, header) ==
    IF header.name \in DOMAIN row.data
    THEN <<Quote>> \o row.data[header.name].text \o <<Quote>>
    ELSE <<Quote, Quote>>

\* one data line (lines 298-302)
CsvRow(row, headers) ==
    Join([ h \in 1..Len(headers) |-> CsvEntry(row, headers[h]) ], Comma)

\* exportToCSV (lines 291-306)
exportToCSV(formatted) ==
    LET headers    == formatted.headers
        rows       == formatted.rows
        csvHeaders == Join([ h \in 1..Len(headers) |-> headers[h].name ],
                           Comma)
        csvRows    == [ r \in 1..Len(rows) |-> CsvRow(rows[r], headers) ]
    IN  Join(<<csvHeaders>> \o csvRows, LF)

\* no request is in flight
InterceptAtRest == requests = <<>>

\* selectFieldValue is not running
SelectAtRest ==
    /\ selPc = "rest"
    /\ selCall = Undefined
    /\ callNo = 0
    /\ selected = <<>>
    /\ liveObjects = {}
    /\ listObject = 0
    /\ qSuccess = <<>>
    /\ selectedBefore = <<>>

\* makeSelections is not running
MakeSelAtRest ==
    /\ msPc = "rest"
    /\ selections = <<>>
    /\ msIndex = 1
    /\ clearCalls = 0
    /\ attempts = <<>>

\* no layout has been received
NoLayout == [received |-> FALSE, qDataPages |-> <<>>]

\* extractPivotDataSimple is not running
SimpleAtRest ==
    /\ simPc = "rest"
    /\ simLayout = NoLayout
    /\ simResult = Undefined
    /\ invocations = 0

\* the paging loop of extractCleanPivot is not running
CleanAtRest ==
    /\ cleanPc = "rest"
    /\ cleanTotalRows = 0
    /\ currentPage = 0
    /\ cleanRequest = NoRequest
    /\ cleanRows = 0
    /\ requestCount = 0

\* run is not running
RunAtRest ==
    /\ runPc = "rest"
    /\ config = Undefined
    /\ sessionManager = "null"
    /\ session = "null"
    /\ global = "null"
    /\ doc = "null"
    /\ completion = "none"
    /\ outcome = "pending"
    /\ failedStage = "none"
    /\ closeCalls = 0
    /\ closeFailed = FALSE
    /\ fetchIssued = FALSE

\* formatPivotData and exportToCSV are not running
FormatAtRest ==
    /\ fmtPc = "rest"
    /\ extractedData = Undefined
    /\ givenData = Undefined
    /\ formattedData = Undefined
    /\ formattedAgain = Undefined
    /\ exported = FALSE
    /\ csv = <<>>


\* ------------------------------------------------------------------- Init
\* the locals of extractPivotData before its first statement
ExtractLocals ==
    /\ allData = <<>>
    /\ currentRow = 0
    /\ pagesProcessed = 0
    /\ rowsToFetch = 0
    /\ request = NoRequest
    /\ exit = "none"
    /\ fetchCount = 0
    /\ abortedRetries = 0
    /\ fallbackCount = 0
    /\ onlyExact = TRUE
    /\ onlyOneRow = TRUE
    /\ onlyMismatch = TRUE
    /\ scenario = "p0"
    /\ firstTwoPages = <<>>
    /\ lastFault = NoFault
    /\ minShrunk = 0
    /\ lastPage = NoPage
    /\ pagesAppended = 0
    /\ cancelRequested = FALSE

\* extractPivotData is not running
ExtractAtRest ==
    /\ pc = "rest"
    /\ options = [pageSize |-> 1, maxPages |-> 0, startRow |-> 0]
    /\ hypercube = [qMode |-> "EQ_DATA_MODE_PIVOT", qcy |-> 0]
    /\ ExtractLocals

Init ==
    /\ FormatAtRest
    /\ InterceptAtRest
    /\ SelectAtRest
    /\ MakeSelAtRest
    /\ SimpleAtRest
    /\ CleanAtRest
    /\ RunAtRest
    /\ pc = "getLayout"
    /\ options \in [ pageSize : (1..MaxPageSize) \cup {LargePageSize},
                     maxPages : 0..MaxPagesCap,
                     startRow : 0..MaxStartRow ]
    /\ hypercube \in [ qMode : {"EQ_DATA_MODE_PIVOT", "EQ_DATA_MODE_STRAIGHT"},
                       qcy   : (0..MaxTotalRows) \cup {LargeTotalRows} ]
    /\ ExtractLocals

hist == <<fetchCount, abortedRetries, fallbackCount,
          onlyExact, onlyOneRow, onlyMismatch, scenario, firstTwoPages,
          lastFault, minShrunk, lastPage, pagesAppended, cancelRequested>>

\* ---------------------------------------------------------------- actions
\* getPivotLayout resolves: the locals are initialised (lines 54-64)
LayoutResolved ==
    /\ pc = "getLayout"
    /\ pc' = "loop"
    /\ currentRow' = options.startRow
    /\ UNCHANGED <<others, options, hypercube, allData, pagesProcessed, rowsToFetch,
                   request, exit, hist>>

\* getPivotLayout rejects: extractPivotData rethrows (lines 189-192)
LayoutRejected ==
    /\ pc = "getLayout"
    /\ pc' = "thrown"
    /\ exit' = "layoutError"
    /\ UNCHANGED <<others, options, hypercube, allData, currentRow, pagesProcessed,
                   rowsToFetch, request, hist>>

\* the while condition is false: the result is returned (lines 67, 174-187)
LoopExit ==
    /\ pc = "loop"
    /\ ~LoopCondition
    /\ pc' = "done"
    /\ exit' = "loopCondition"
    /\ UNCHANGED <<others, options, hypercube, allData, currentRow, pagesProcessed,
                   rowsToFetch, request, hist>>

\* head of an iteration: the first attempt is issued (lines 67-93)
IssueFirstAttempt ==
    /\ pc = "loop"
    /\ LoopCondition
    /\ rowsToFetch' = RowsToFetch
    /\ request' = Request(FirstMethod, currentRow, RowsToFetch)
    /\ fetchCount' = Sat(fetchCount, FetchCap)
    /\ lastFault' = NoFault
    /\ pc' = "awaitFirst"
    /\ UNCHANGED <<others, options, hypercube, allData, currentRow, pagesProcessed,
                   exit, abortedRetries, fallbackCount,
                   onlyExact, onlyOneRow, onlyMismatch,
                   scenario, firstTwoPages, minShrunk, lastPage,
                   pagesAppended, cancelRequested>>

\* first attempt resolves with a page (lines 95-110)
FirstAttemptPage ==
    /\ pc = "awaitFirst"
    /\ \E pageData \in PageDatas(request.qTop, request.qHeight) :
         /\ HasMatrix(pageData)
         /\ allData' = allData \o pageData[1].qMatrix
         /\ currentRow' = AdvanceFirst(currentRow, rowsToFetch,
                                       Len(pageData[1].qMatrix))
         /\ ObservePage(Len(pageData[1].qMatrix))
    /\ pagesProcessed' = pagesProcessed + 1
    /\ abortedRetries' = 0
    /\ request' = NoRequest
    /\ pc' = "loop"
    /\ UNCHANGED <<others, options, hypercube, rowsToFetch, exit,
                   fetchCount, fallbackCount>>
    /\ UNCHANGED <<minShrunk, cancelRequested>>

\* the no-page branch as it would be if it counted the page and went on
FirstAttemptNoDataContinue ==
    /\ pc = "awaitFirst"
    /\ \E pageData \in PageDatas(request.qTop, request.qHeight) :
         ~HasMatrix(pageData)
    /\ ObserveNoData
    /\ request' = NoRequest
    /\ currentRow' = currentRow + rowsToFetch
    /\ pagesProcessed' = pagesProcessed + 1
    /\ pc' = "loop"
    /\ UNCHANGED <<others, options, hypercube, allData,
                   rowsToFetch, exit, fetchCount, abortedRetries,
                   fallbackCount>>
    /\ UNCHANGED <<minShrunk, cancelRequested>>

\* first attempt resolves without a page: break (lines 99-102)
FirstAttemptNoData ==
    /\ pc = "awaitFirst"
    /\ \E pageData \in PageDatas(request.qTop, request.qHeight) :
         ~HasMatrix(pageData)
    /\ ObserveNoData
    /\ request' = NoRequest
    /\ exit' = "noData"
    /\ pc' = "done"
    /\ UNCHANGED <<others, options, hypercube, allData, currentRow, pagesProcessed,
                   rowsToFetch, fetchCount, abortedRetries, fallbackCount>>
    /\ UNCHANGED <<minShrunk, cancelRequested>>

\* first attempt rejects with a capacity fault: the reduced-size retry is
\* issued with getHyperCubeData (lines 116-127)
FirstAttemptTooLarge ==
    /\ pc = "awaitFirst"
    /\ \E e \in Faults :
         /\ IsPageTooLarge(e)
         /\ ObserveFault(e)
    /\ request' = Request("getHyperCubeData", currentRow,
                          NewPageSize(rowsToFetch))
    /\ fetchCount' = Sat(fetchCount, FetchCap)
    /\ pc' = "awaitReduced"
    /\ UNCHANGED <<others, options, hypercube, allData, currentRow, pagesProcessed,
                   rowsToFetch, exit, abortedRetries, fallbackCount>>
    /\ minShrunk' = IF minShrunk = 0 THEN NewPageSize(rowsToFetch)
                    ELSE Min(minShrunk, NewPageSize(rowsToFetch))
    /\ UNCHANGED cancelRequested

\* first attempt rejects with a mode-mismatch fault: the straight-table retry
\* is issued (lines 141-150)
FirstAttemptNotPivot ==
    /\ pc = "awaitFirst"
    /\ \E e \in Faults :
         /\ ~IsPageTooLarge(e)
         /\ IsNotPivotMode(e)
         /\ ObserveFault(e)
    /\ request' = Request("getHyperCubeData", currentRow, rowsToFetch)
    /\ fetchCount' = Sat(fetchCount, FetchCap)
    /\ fallbackCount' = Sat(fallbackCount, FallbackCap)
    /\ pc' = "awaitStraight"
    /\ UNCHANGED <<others, options, hypercube, allData, currentRow, pagesProcessed,
                   rowsToFetch, exit, abortedRetries>>
    /\ UNCHANGED <<minShrunk, cancelRequested>>

\* first attempt rejects with the aborted fault: continue (lines 164-166)
FirstAttemptAborted ==
    /\ pc = "awaitFirst"
    /\ \E e \in Faults :
         /\ ~IsPageTooLarge(e)
         /\ ~IsNotPivotMode(e)
         /\ IsAborted(e)
         /\ ObserveFault(e)
    /\ abortedRetries' = Sat(abortedRetries, AbortCap)
    /\ request' = NoRequest
    /\ pc' = "loop"
    /\ UNCHANGED <<others, options, hypercube, allData, currentRow, pagesProcessed,
                   rowsToFetch, exit, fetchCount, fallbackCount>>
    /\ UNCHANGED <<minShrunk, cancelRequested>>

\* the last else branch as it would be with continue in place of break
FirstAttemptOtherErrorContinue ==
    /\ pc = "awaitFirst"
    /\ \E e \in Faults :
         /\ ~IsPageTooLarge(e)
         /\ ~IsNotPivotMode(e)
         /\ ~IsAborted(e)
         /\ ObserveFault(e)
    /\ request' = NoRequest
    /\ pc' = "loop"
    /\ UNCHANGED <<others, options, hypercube, allData, currentRow, pagesProcessed,
                   rowsToFetch, exit, fetchCount, abortedRetries,
                   fallbackCount, minShrunk, cancelRequested>>

\* first attempt rejects with any other fault: break (lines 167-170)
FirstAttemptOtherError ==
    /\ pc = "awaitFirst"
    /\ \E e \in Faults :
         /\ ~IsPageTooLarge(e)
         /\ ~IsNotPivotMode(e)
         /\ ~IsAborted(e)
         /\ ObserveFault(e)
    /\ request' = NoRequest
    /\ exit' = "otherError"
    /\ pc' = "done"
    /\ UNCHANGED <<others, options, hypercube, allData, currentRow, pagesProcessed,
                   rowsToFetch, fetchCount, abortedRetries, fallbackCount>>
    /\ UNCHANGED <<minShrunk, cancelRequested>>

\* reduced-size retry resolves with a page: continue (lines 129-136)
ReducedPage ==
    /\ pc = "awaitReduced"
    /\ \E pageData \in PageDatas(request.qTop, request.qHeight) :
         /\ HasMatrix(pageData)
         /\ allData' = allData \o pageData[1].qMatrix
         /\ currentRow' = AdvanceReduced(currentRow, request.qHeight,
                                         Len(pageData[1].qMatrix))
         /\ ObservePage(Len(pageData[1].qMatrix))
    /\ pagesProcessed' = pagesProcessed + 1
    /\ abortedRetries' = 0
    /\ request' = NoRequest
    /\ pc' = "loop"
    /\ UNCHANGED <<others, options, hypercube, rowsToFetch, exit,
                   fetchCount, fallbackCount>>
    /\ UNCHANGED <<minShrunk, cancelRequested>>

\* reduced-size retry resolves without a page: control falls out of the
\* catch block to the loop head (lines 129, 136, 171-172)
ReducedNoData ==
    /\ pc = "awaitReduced"
    /\ \E pageData \in PageDatas(request.qTop, request.qHeight) :
         ~HasMatrix(pageData)
    /\ ObserveNoData
    /\ request' = NoRequest
    /\ pc' = "loop"
    /\ UNCHANGED <<others, options, hypercube, allData, currentRow, pagesProcessed,
                   rowsToFetch, exit, fetchCount, abortedRetries,
                   fallbackCount>>
    /\ UNCHANGED <<minShrunk, cancelRequested>>

\* the reduced-size catch as it would be if it rethrew the fault
ReducedErrorRethrown ==
    /\ pc = "awaitReduced"
    /\ \E e \in Faults : ObserveFault(e)
    /\ request' = NoRequest
    /\ exit' = "retryError"
    /\ pc' = "thrown"
    /\ UNCHANGED <<others, options, hypercube, allData, currentRow, pagesProcessed,
                   rowsToFetch, fetchCount, abortedRetries, fallbackCount,
                   minShrunk, cancelRequested>>

\* reduced-size retry rejects: break (lines 137-140)
ReducedError ==
    /\ pc = "awaitReduced"
    /\ \E e \in Faults : ObserveFault(e)
    /\ request' = NoRequest
    /\ exit' = "retryError"
    /\ pc' = "done"
    /\ UNCHANGED <<others, options, hypercube, allData, currentRow, pagesProcessed,
                   rowsToFetch, fetchCount, abortedRetries, fallbackCount>>
    /\ UNCHANGED <<minShrunk, cancelRequested>>

\* straight-table retry resolves with a page: continue (lines 152-159)
StraightPage ==
    /\ pc = "awaitStraight"
    /\ \E pageData \in PageDatas(request.qTop, request.qHeight) :
         /\ HasMatrix(pageData)
         /\ allData' = allData \o pageData[1].qMatrix
         /\ currentRow' = AdvanceStraight(currentRow, rowsToFetch,
                                          Len(pageData[1].qMatrix))
         /\ ObservePage(Len(pageData[1].qMatrix))
    /\ pagesProcessed' = pagesProcessed + 1
    /\ abortedRetries' = 0
    /\ request' = NoRequest
    /\ pc' = "loop"
    /\ UNCHANGED <<others, options, hypercube, rowsToFetch, exit,
                   fetchCount, fallbackCount>>
    /\ UNCHANGED <<minShrunk, cancelRequested>>

\* straight-table retry resolves without a page: back to the loop head
\* (lines 152, 159, 171-172)
StraightNoData ==
    /\ pc = "awaitStraight"
    /\ \E pageData \in PageDatas(request.qTop, request.qHeight) :
         ~HasMatrix(pageData)
    /\ ObserveNoData
    /\ request' = NoRequest
    /\ pc' = "loop"
    /\ UNCHANGED <<others, options, hypercube, allData, currentRow, pagesProcessed,
                   rowsToFetch, exit, fetchCount, abortedRetries,
                   fallbackCount>>
    /\ UNCHANGED <<minShrunk, cancelRequested>>

\* the straight-table catch as it would be with continue in place of break
StraightErrorContinue ==
    /\ pc = "awaitStraight"
    /\ \E e \in Faults : ObserveFault(e)
    /\ request' = NoRequest
    /\ pc' = "loop"
    /\ UNCHANGED <<others, options, hypercube, allData, currentRow, pagesProcessed,
                   rowsToFetch, exit, fetchCount, abortedRetries,
                   fallbackCount>>
    /\ UNCHANGED <<minShrunk, cancelRequested>>

\* straight-table retry rejects: break (lines 160-163)
StraightError ==
    /\ pc = "awaitStraight"
    /\ \E e \in Faults : ObserveFault(e)
    /\ request' = NoRequest
    /\ exit' = "straightError"
    /\ pc' = "done"
    /\ UNCHANGED <<others, options, hypercube, allData, currentRow, pagesProcessed,
                   rowsToFetch, fetchCount, abortedRetries, fallbackCount>>
    /\ UNCHANGED <<minShrunk, cancelRequested>>

\* the caller asks for the extraction to stop, between two pages; the
\* options of extractPivotData (lines 43-49) carry nothing the loop reads it from
CallerCancels ==
    /\ pc = "loop"
    /\ pagesProcessed >= 1
    /\ LoopCondition
    /\ ~cancelRequested
    /\ cancelRequested' = TRUE
    /\ UNCHANGED <<others, pc, options, hypercube, allData, currentRow, pagesProcessed,
                   rowsToFetch, request, exit, fetchCount, abortedRetries,
                   fallbackCount, onlyExact, onlyOneRow, onlyMismatch,
                   scenario, firstTwoPages, lastFault, minShrunk, lastPage,
                   pagesAppended>>

Next ==
    \/ LayoutResolved
    \/ LayoutRejected
    \/ LoopExit
    \/ IssueFirstAttempt
    \/ FirstAttemptPage
    \/ FirstAttemptNoData
    \/ FirstAttemptTooLarge
    \/ FirstAttemptNotPivot
    \/ FirstAttemptAborted
    \/ FirstAttemptOtherError
    \/ ReducedPage
    \/ ReducedNoData
    \/ ReducedError
    \/ StraightPage
    \/ StraightNoData
    \/ StraightError

Spec == Init /\ [][Next]_vars

\* The engine answers every request and the function runs on after each await.
FairSpec == Spec /\ WF_vars(Next)

\* the extraction with a caller that may ask for it to stop
NextWithCancel ==
    \/ Next
    \/ CallerCancels

CancelSpec == Init /\ [][NextWithCancel]_vars

TypeOK ==
    /\ pc \in {"getLayout", "loop", "awaitFirst", "awaitReduced",
               "awaitStraight", "done", "thrown"}
    /\ currentRow \in Nat
    /\ pagesProcessed \in Nat

\* ------------------------------------- formatPivotData and exportToCSV run
FormatInit ==
    /\ ExtractAtRest
    /\ InterceptAtRest
    /\ SelectAtRest
    /\ MakeSelAtRest
    /\ SimpleAtRest
    /\ CleanAtRest
    /\ RunAtRest
    /\ fmtPc = "start"
    /\ extractedData \in ExtractionResults
    /\ givenData = extractedData
    /\ formattedData = Undefined
    /\ formattedAgain = Undefined
    /\ exported = FALSE
    /\ csv = <<>>

\* formatPivotData as it would be if it consumed the rows with data.shift()
FormatPivotDataShifting ==
    /\ fmtPc = "start"
    /\ formattedData' = formatPivotData(extractedData)
    /\ extractedData' = [extractedData EXCEPT !.data = <<>>]
    /\ fmtPc' = "formatted"
    /\ UNCHANGED <<outsideFormat, givenData, formattedAgain, exported, csv>>

\* the caller formats the extraction result (lines 232-288); data and
\* metadata are only read
FormatPivotData ==
    /\ fmtPc = "start"
    /\ formattedData' = formatPivotData(extractedData)
    /\ extractedData' = extractedData
    /\ fmtPc' = "formatted"
    /\ UNCHANGED <<outsideFormat, givenData, formattedAgain, exported, csv>>

\* the caller formats the same extraction result a second time
FormatPivotDataAgain ==
    /\ fmtPc = "formatted"
    /\ formattedAgain' = formatPivotData(extractedData)
    /\ extractedData' = extractedData
    /\ fmtPc' = "formattedTwice"
    /\ UNCHANGED <<outsideFormat, givenData, formattedData, exported, csv>>

\* the caller exports the formatted result (lines 291-306)
ExportToCSV ==
    /\ fmtPc \in {"formatted", "formattedTwice"}
    /\ ~exported
    /\ csv' = exportToCSV(formattedData)
    /\ exported' = TRUE
    /\ UNCHANGED <<outsideFormat, fmtPc, extractedData, givenData,
                   formattedData, formattedAgain>>

FormatNext ==
    \/ FormatPivotData
    \/ FormatPivotDataAgain
    \/ ExportToCSV

FormatSpec == FormatInit /\ [][FormatNext]_vars

\* ------------------------------------- the response interceptor (session)
Aborted == "LOCERR_GENERIC_ABORTED"

ErrorCodes == {Aborted, "LOCERR_GENERIC_UNKNOWN"}

\* a request as it is first sent: request.tries is undefined, read as 0
NewRequest ==
    [ state |-> "sent", tries |-> 0, sends |-> 1, aborted |-> 0,
      error |-> "none" ]

\* the interceptor as it would be if it allowed one retry more
retryAbortedErrorOneMore(req, code) ==
    IF code = Aborted
    THEN IF req.tries + 1 <= MaxRetries + 1
         THEN [req EXCEPT !.tries = @ + 1, !.sends = @ + 1]
         ELSE [req EXCEPT !.tries = @ + 1, !.state = "rejected"]
    ELSE [req EXCEPT !.state = "rejected"]

\* onRejected (lines 52-66): request.retry() sends the request again,
\* Promise.reject(error) hands the rejection on to the caller
retryAbortedError(req, code) ==
    IF code = Aborted
    THEN IF req.tries + 1 <= MaxRetries
         THEN [req EXCEPT !.tries = @ + 1, !.sends = @ + 1]
         ELSE [req EXCEPT !.tries = @ + 1, !.state = "rejected"]
    ELSE [req EXCEPT !.state = "rejected"]

InterceptInit ==
    /\ ExtractAtRest
    /\ FormatAtRest
    /\ SelectAtRest
    /\ MakeSelAtRest
    /\ SimpleAtRest
    /\ CleanAtRest
    /\ RunAtRest
    /\ requests = [r \in 1..MaxRequests |-> NewRequest]

\* the engine rejects a request with some error code: the interceptor runs
EngineRejects ==
    /\ \E r \in DOMAIN requests, code \in ErrorCodes :
         /\ requests[r].state = "sent"
         /\ requests' =
              [requests EXCEPT ![r] =
                 retryAbortedError(
                   [@ EXCEPT !.error = code,
                             !.aborted = IF code = Aborted THEN @ + 1 ELSE @],
                   code)]
    /\ UNCHANGED outsideIntercept

\* the engine resolves a request: onRejected is not called
EngineResolves ==
    /\ \E r \in DOMAIN requests :
         /\ requests[r].state = "sent"
         /\ requests' = [requests EXCEPT ![r].state = "resolved"]
    /\ UNCHANGED outsideIntercept

InterceptNext ==
    \/ EngineRejects
    \/ EngineResolves

InterceptSpec == InterceptInit /\ [][InterceptNext]_vars

\* -------------------------------------------- FieldSelector.selectFieldValue
Fields == {"Zavod", "YearMonth"}

\* the values the field's list object shows
FieldValues == {"1101", "1102"}

\* the values a caller may ask for
TargetValues == FieldValues \cup {"9999"}

SelectInit ==
    /\ ExtractAtRest
    /\ MakeSelAtRest
    /\ SimpleAtRest
    /\ CleanAtRest
    /\ FormatAtRest
    /\ InterceptAtRest
    /\ RunAtRest
    /\ selPc = "createObject"
    /\ selCall \in [fieldName : Fields, value : TargetValues]
    /\ callNo = 1
    /\ selected \in [Fields -> SUBSET FieldValues]
    /\ liveObjects = {}
    /\ listObject = 0
    /\ qSuccess = <<>>
    /\ selectedBefore = <<>>

\* doc.createObject resolves (lines 26, 60)
CreateObjectResolved ==
    /\ selPc = "createObject"
    /\ liveObjects' = liveObjects \cup {callNo}
    /\ listObject' = callNo
    /\ selPc' = "getLayout"
    /\ UNCHANGED <<outsideSelect, selCall, callNo, selected, qSuccess,
                   selectedBefore>>

\* doc.createObject rejects: the catch rethrows (lines 74-77)
CreateObjectRejected ==
    /\ selPc = "createObject"
    /\ selPc' = "thrown"
    /\ UNCHANGED <<outsideSelect, selCall, callNo, selected, liveObjects,
                   listObject, qSuccess, selectedBefore>>

\* getLayout resolves and the pages hold the value (lines 31-46)
ValueFound ==
    /\ selPc = "getLayout"
    /\ selCall.value \in FieldValues
    /\ selPc' = "select"
    /\ UNCHANGED <<outsideSelect, selCall, callNo, selected, liveObjects,
                   listObject, qSuccess, selectedBefore>>

\* getLayout resolves and no cell has the value: findValueIndex throws
\* (line 51) and the catch rethrows (lines 74-77)
ValueNotFound ==
    /\ selPc = "getLayout"
    /\ selCall.value \notin FieldValues
    /\ selPc' = "thrown"
    /\ UNCHANGED <<outsideSelect, selCall, callNo, selected, liveObjects,
                   listObject, qSuccess, selectedBefore>>

\* getLayout rejects: the catch rethrows
ListLayoutRejected ==
    /\ selPc = "getLayout"
    /\ selPc' = "thrown"
    /\ UNCHANGED <<outsideSelect, selCall, callNo, selected, liveObjects,
                   listObject, qSuccess, selectedBefore>>

\* the engine's selectListObjectValues on a field's list object: without
\* toggle mode the given value replaces the field's selection
SelectListObjectValues(selection, fieldName, value, toggleMode) ==
    [selection EXCEPT ![fieldName] =
        IF toggleMode
        THEN (@ \ {value}) \cup ({value} \ @)
        ELSE {value}]

\* selectListObjectValues resolves, with true when the engine made the
\* selection and with false when it did not (a locked field); the result
\* is not read (line 67)
SelectionResolved ==
    /\ selPc = "select"
    /\ \E success \in BOOLEAN :
         /\ qSuccess' = Append(qSuccess, success)
         /\ selected' = IF success
                        THEN SelectListObjectValues(selected,
                                 selCall.fieldName, selCall.value, FALSE)
                        ELSE selected
    /\ selPc' = "destroyObject"
    /\ UNCHANGED <<outsideSelect, selCall, callNo, liveObjects, listObject,
                   selectedBefore>>

\* selectListObjectValues rejects: the catch rethrows (lines 74-77)
SelectionRejected ==
    /\ selPc = "select"
    /\ selPc' = "thrown"
    /\ UNCHANGED <<outsideSelect, selCall, callNo, selected, liveObjects,
                   listObject, qSuccess, selectedBefore>>

\* doc.destroyObject resolves: return true (lines 71-73)
DestroyObjectResolved ==
    /\ selPc = "destroyObject"
    /\ liveObjects' = liveObjects \ {listObject}
    /\ selPc' = "returned"
    /\ UNCHANGED <<outsideSelect, selCall, callNo, selected, listObject,
                   qSuccess, selectedBefore>>

\* doc.destroyObject rejects: the catch rethrows (lines 74-77)
DestroyObjectRejected ==
    /\ selPc = "destroyObject"
    /\ selPc' = "thrown"
    /\ UNCHANGED <<outsideSelect, selCall, callNo, selected, liveObjects,
                   listObject, qSuccess, selectedBefore>>

\* the caller makes the same selection once more
SelectAgain ==
    /\ selPc = "returned"
    /\ callNo < MaxCalls
    /\ callNo' = callNo + 1
    /\ selectedBefore' = selected
    /\ listObject' = 0
    /\ selPc' = "createObject"
    /\ UNCHANGED <<outsideSelect, selCall, selected, liveObjects, qSuccess>>

SelectNext ==
    \/ CreateObjectResolved
    \/ CreateObjectRejected
    \/ ValueFound
    \/ ValueNotFound
    \/ ListLayoutRejected
    \/ SelectionResolved
    \/ SelectionRejected
    \/ DestroyObjectResolved
    \/ DestroyObjectRejected
    \/ SelectAgain

SelectSpec == SelectInit /\ [][SelectNext]_vars

\* ---------------------------------------------- FieldSelector.makeSelections
\* the lists of selections a caller may hand over
SelectionLists ==
    SeqsUpTo([fieldName : Fields, value : TargetValues], MaxSelections)

\* the selection state after doc.clearAll()
Cleared == [f \in Fields |-> {}]

MakeSelInit ==
    /\ ExtractAtRest
    /\ FormatAtRest
    /\ InterceptAtRest
    /\ RunAtRest
    /\ SimpleAtRest
    /\ CleanAtRest
    /\ selPc = "rest"
    /\ selCall = Undefined
    /\ callNo = 0
    /\ selected \in [Fields -> SUBSET FieldValues]
    /\ liveObjects = {}
    /\ listObject = 0
    /\ qSuccess = <<>>
    /\ selectedBefore = <<>>
    /\ msPc = "clearAll"
    /\ selections \in SelectionLists
    /\ msIndex = 1
    /\ clearCalls = 0
    /\ attempts = <<>>

\* doc.clearAll() resolves (part_002 lines 115, 222-224)
ClearAllResolved ==
    /\ msPc = "clearAll"
    /\ clearCalls' = clearCalls + 1
    /\ selected' = Cleared
    /\ msPc' = "loop"
    /\ UNCHANGED <<outsideMakeSel, selPc, selCall, callNo, liveObjects,
                   listObject, qSuccess, selectedBefore, selections,
                   msIndex, attempts>>

\* doc.clearAll() rejects: clearSelections rethrows (lines 225-228) and
\* makeSelections rejects before its loop
ClearAllRejected ==
    /\ msPc = "clearAll"
    /\ clearCalls' = clearCalls + 1
    /\ msPc' = "thrown"
    /\ UNCHANGED <<outsideMakeSel, selectVars, selections, msIndex,
                   attempts>>

\* the loop hands the next selection of the list to selectFieldValue
\* (lines 117-121)
CallSelectFieldValue ==
    /\ msPc = "loop"
    /\ msIndex <= Len(selections)
    /\ attempts' = Append(attempts, selections[msIndex])
    /\ selCall' = selections[msIndex]
    /\ callNo' = callNo + 1
    /\ listObject' = 0
    /\ selPc' = "createObject"
    /\ msPc' = "awaitSelect"
    /\ UNCHANGED <<outsideMakeSel, selected, liveObjects, qSuccess,
                   selectedBefore, selections, msIndex, clearCalls>>

\* selectFieldValue throws: the catch of the loop body rethrows
\* (lines 130-133); nothing is undone
SelectFieldValueThrew ==
    /\ msPc = "awaitSelect"
    /\ selPc = "thrown"
    /\ selPc' = "rest"
    /\ msPc' = "thrown"
    /\ UNCHANGED <<outsideMakeSel, selCall, callNo, selected, liveObjects,
                   listObject, qSuccess, selectedBefore, selections,
                   msIndex, clearCalls, attempts>>

\* selectFieldValue returns, always true (line 73), so the test of line 123
\* passes; the 200 ms wait is over and the loop moves on (lines 121-128)
SelectFieldValueReturned ==
    /\ msPc = "awaitSelect"
    /\ selPc = "returned"
    /\ selPc' = "rest"
    /\ msIndex' = msIndex + 1
    /\ msPc' = "loop"
    /\ UNCHANGED <<outsideMakeSel, selCall, callNo, selected, liveObjects,
                   listObject, qSuccess, selectedBefore, selections,
                   clearCalls, attempts>>

\* the list is through (line 136)
SelectionsDone ==
    /\ msPc = "loop"
    /\ msIndex > Len(selections)
    /\ msPc' = "verify"
    /\ UNCHANGED <<outsideMakeSel, selectVars, selections, msIndex,
                   clearCalls, attempts>>

\* verifyActualSelections only reads and logs the selection state and
\* catches every error (lines 146-217); makeSelections returns true
VerifiedActualSelections ==
    /\ msPc = "verify"
    /\ msPc' = "returned"
    /\ UNCHANGED <<outsideMakeSel, selectVars, selections, msIndex,
                   clearCalls, attempts>>

\* the steps of makeSelections and of the selectFieldValue calls it makes
MakeSelNext ==
    \/ ClearAllResolved
    \/ ClearAllRejected
    \/ CallSelectFieldValue
    \/ CreateObjectResolved
    \/ CreateObjectRejected
    \/ ValueFound
    \/ ValueNotFound
    \/ ListLayoutRejected
    \/ SelectionResolved
    \/ SelectionRejected
    \/ DestroyObjectResolved
    \/ DestroyObjectRejected
    \/ SelectFieldValueThrew
    \/ SelectFieldValueReturned
    \/ SelectionsDone
    \/ VerifiedActualSelections

MakeSelSpec == MakeSelInit /\ [][MakeSelNext]_vars

\* ---------------------------------------------- QlikPivotDataExtractor.run
\* the selection state of the app when the document is opened
AppSelections == [Fields -> SUBSET FieldValues]

\* the two selections run asks for (index.js lines 126-135)
ConfiguredSelections(cfg) ==
    << [fieldName |-> "Zavod", value |-> cfg.zavodValue],
       [fieldName |-> "YearMonth", value |-> cfg.yearMonthValue] >>

RunInit ==
    /\ ExtractAtRest
    /\ FormatAtRest
    /\ InterceptAtRest
    /\ MakeSelAtRest
    /\ SimpleAtRest
    /\ CleanAtRest
    /\ selPc = "rest"
    /\ selCall = Undefined
    /\ callNo = 0
    /\ selected \in AppSelections
    /\ liveObjects = {}
    /\ listObject = 0
    /\ qSuccess = <<>>
    /\ selectedBefore = <<>>
    /\ runPc = "initialize"
    /\ config \in [enableTrafficLogging : BOOLEAN, debugFields : BOOLEAN,
                    zavodValue : {"1101", "9999"},
                    yearMonthValue : {"1102"}]
    /\ sessionManager = "null"
    /\ session = "null"
    /\ global = "null"
    /\ doc = "null"
    /\ completion = "none"
    /\ outcome = "pending"
    /\ failedStage = "none"
    /\ closeCalls = 0
    /\ closeFailed = FALSE
    /\ fetchIssued = FALSE

\* a stage rejects: the catch of run rethrows and the finally block runs
\* (index.js lines 266-271)
StageFails(stage) ==
    /\ completion' = stage
    /\ failedStage' = stage
    /\ runPc' = "shutdown"

\* how run settles once the finally block is through
Settled == IF completion = "none" THEN "resolved" ELSE completion

\* initialize creates the SessionManager and connect creates the session
\* (index.js lines 83-91, part_000 lines 74, 81-83)
SessionCreated ==
    /\ runPc = "initialize"
    /\ sessionManager' = "created"
    /\ session' = "set"
    /\ runPc' = "open"
    /\ UNCHANGED <<outsideRun, fetchIssued, config, global, doc, completion, outcome,
                   failedStage, closeCalls, closeFailed>>

\* createSession throws inside connect: the session stays null
CreateSessionThrows ==
    /\ runPc = "initialize"
    /\ sessionManager' = "created"
    /\ StageFails("initialize")
    /\ UNCHANGED <<outsideRun, fetchIssued, config, session, global, doc, outcome,
                   closeCalls, closeFailed>>

\* session.open() resolves (part_000 line 86)
OpenResolved ==
    /\ runPc = "open"
    /\ global' = "set"
    /\ runPc' = "openDoc"
    /\ UNCHANGED <<outsideRun, fetchIssued, config, sessionManager, session, doc,
                   completion, outcome, failedStage, closeCalls, closeFailed>>

OpenRejected ==
    /\ runPc = "open"
    /\ StageFails("initialize")
    /\ UNCHANGED <<outsideRun, fetchIssued, config, sessionManager, session, global, doc,
                   outcome, closeCalls, closeFailed>>

\* global.openDoc() resolves (part_000 line 90); initialize returns and
\* makeSelections starts, with the field debugger first when asked for
\* (index.js lines 112-124)
OpenDocResolved ==
    /\ runPc = "openDoc"
    /\ doc' = "set"
    /\ runPc' = IF config.debugFields THEN "debugFields" ELSE "makeSelections"
    /\ UNCHANGED <<outsideRun, fetchIssued, config, sessionManager, session, global,
                   completion, outcome, failedStage, closeCalls, closeFailed>>

OpenDocRejected ==
    /\ runPc = "openDoc"
    /\ StageFails("initialize")
    /\ UNCHANGED <<outsideRun, fetchIssued, config, sessionManager, session, global, doc,
                   outcome, closeCalls, closeFailed>>

DebugFieldsResolved ==
    /\ runPc = "debugFields"
    /\ runPc' = "makeSelections"
    /\ UNCHANGED <<outsideRun, fetchIssued, config, sessionManager, session, global, doc,
                   completion, outcome, failedStage, closeCalls, closeFailed>>

DebugFieldsRejected ==
    /\ runPc = "debugFields"
    /\ StageFails("makeSelections")
    /\ UNCHANGED <<outsideRun, fetchIssued, config, sessionManager, session, global, doc,
                   outcome, closeCalls, closeFailed>>

\* makeSelections hands the two configured selections to
\* fieldSelector.makeSelections (index.js lines 126-137)
MakeSelectionsCalled ==
    /\ runPc = "makeSelections"
    /\ msPc' = "clearAll"
    /\ selections' = ConfiguredSelections(config)
    /\ runPc' = "awaitMakeSelections"
    /\ UNCHANGED <<extractVars, formatVars, interceptVars, selectVars,
                   simpleVars, cleanVars, msIndex, clearCalls, attempts>>
    /\ UNCHANGED <<config, sessionManager, session, global, doc,
                   completion, outcome, failedStage, closeCalls, closeFailed,
                   fetchIssued>>

\* fieldSelector.makeSelections resolves; verifySelections reads the
\* selection state and catches its own errors (index.js lines 137-140,
\* part_002 lines 243-262)
MakeSelectionsResolved ==
    /\ runPc = "awaitMakeSelections"
    /\ msPc = "returned"
    /\ runPc' = "extractData"
    /\ UNCHANGED <<outsideRun, fetchIssued, config, sessionManager, session, global, doc,
                   completion, outcome, failedStage, closeCalls, closeFailed>>

\* fieldSelector.makeSelections rejects: the catch rethrows
\* (index.js lines 144-147)
MakeSelectionsRejected ==
    /\ runPc = "awaitMakeSelections"
    /\ msPc = "thrown"
    /\ StageFails("makeSelections")
    /\ UNCHANGED <<outsideRun, fetchIssued, config, sessionManager, session, global, doc,
                   outcome, closeCalls, closeFailed>>

\* getPivotObject resolves (index.js line 156, pivot-extractor.js line 10)
GetPivotObjectResolved ==
    /\ runPc = "extractData"
    /\ runPc' = "getPivotLayout"
    /\ UNCHANGED <<outsideRun, fetchIssued, config, sessionManager, session,
                   global, doc, completion, outcome, failedStage, closeCalls,
                   closeFailed>>

\* getPivotObject rejects: extractData rethrows (index.js lines 172-175)
ExtractDataRejected ==
    /\ runPc = "extractData"
    /\ StageFails("extractData")
    /\ UNCHANGED <<outsideRun, fetchIssued, config, sessionManager, session,
                   global, doc, outcome, closeCalls, closeFailed>>

\* getPivotLayout rejects inside extractPivotData, which rethrows
\* (pivot-extractor.js lines 52, 189-192)
PivotLayoutRejected ==
    /\ runPc = "getPivotLayout"
    /\ StageFails("extractData")
    /\ UNCHANGED <<outsideRun, fetchIssued, config, sessionManager, session,
                   global, doc, outcome, closeCalls, closeFailed>>

\* the layout shows no row to fetch or maxPages is 0: the loop of
\* extractPivotData is not entered (pivot-extractor.js line 67) and
\* extractData resolves without a request for a page
ExtractedWithoutFetch ==
    /\ runPc = "getPivotLayout"
    /\ runPc' = "saveJson"
    /\ UNCHANGED <<outsideRun, fetchIssued, config, sessionManager, session,
                   global, doc, completion, outcome, failedStage, closeCalls,
                   closeFailed>>

\* the loop is entered and asks the engine for the first page
\* (pivot-extractor.js lines 67-93)
FirstFetchIssued ==
    /\ runPc = "getPivotLayout"
    /\ fetchIssued' = TRUE
    /\ runPc' = "fetching"
    /\ UNCHANGED <<outsideRun, config, sessionManager, session,
                   global, doc, completion, outcome, failedStage, closeCalls,
                   closeFailed>>

\* the loop ends, by its condition or by a break, and extractData resolves;
\* the summary is printed (index.js lines 165-170, 253-256)
ExtractDataResolved ==
    /\ runPc = "fetching"
    /\ runPc' = "saveJson"
    /\ UNCHANGED <<outsideRun, fetchIssued, config, sessionManager, session,
                   global, doc, completion, outcome, failedStage, closeCalls,
                   closeFailed>>

\* saveDataToFile(data, 'pivot_data.json') (index.js line 259)
SaveJsonResolved ==
    /\ runPc = "saveJson"
    /\ runPc' = "saveCsv"
    /\ UNCHANGED <<outsideRun, fetchIssued, config, sessionManager, session, global, doc,
                   completion, outcome, failedStage, closeCalls, closeFailed>>

SaveJsonRejected ==
    /\ runPc = "saveJson"
    /\ StageFails("saving")
    /\ UNCHANGED <<outsideRun, fetchIssued, config, sessionManager, session, global, doc,
                   outcome, closeCalls, closeFailed>>

\* saveDataToFile(data, 'pivot_data.csv') resolves: return data
\* (index.js lines 260-264)
SaveCsvResolved ==
    /\ runPc = "saveCsv"
    /\ runPc' = "shutdown"
    /\ UNCHANGED <<outsideRun, fetchIssued, config, sessionManager, session, global, doc,
                   completion, outcome, failedStage, closeCalls, closeFailed>>

SaveCsvRejected ==
    /\ runPc = "saveCsv"
    /\ StageFails("saving")
    /\ UNCHANGED <<outsideRun, fetchIssued, config, sessionManager, session, global, doc,
                   outcome, closeCalls, closeFailed>>

\* the finally block of run: shutdown calls SessionManager.close when there
\* is a session manager (index.js lines 225-229, 269-271); close awaits
\* session.close() when there is a session and otherwise goes straight to
\* its finally block (part_000 lines 113-126)
ShutdownCallsClose ==
    /\ runPc = "shutdown"
    /\ closeCalls' = IF sessionManager # "null" THEN closeCalls + 1
                     ELSE closeCalls
    /\ IF sessionManager # "null" /\ session # "null"
       THEN /\ runPc' = "closing"
            /\ UNCHANGED <<session, global, doc, outcome>>
       ELSE /\ session' = "null"
            /\ global' = "null"
            /\ doc' = "null"
            /\ outcome' = Settled
            /\ runPc' = "ended"
    /\ UNCHANGED <<outsideRun, fetchIssued, config, sessionManager, completion,
                   failedStage, closeFailed>>

\* session.close() resolves; the finally block of close clears the fields
SessionCloseResolved ==
    /\ runPc = "closing"
    /\ session' = "null"
    /\ global' = "null"
    /\ doc' = "null"
    /\ outcome' = Settled
    /\ runPc' = "ended"
    /\ UNCHANGED <<outsideRun, fetchIssued, config, sessionManager, completion,
                   failedStage, closeCalls, closeFailed>>

\* close and shutdown as they would be without their catch and finally blocks
SessionCloseRejectedUncaught ==
    /\ runPc = "closing"
    /\ closeFailed' = TRUE
    /\ outcome' = "close"
    /\ runPc' = "ended"
    /\ UNCHANGED <<outsideRun, fetchIssued, config, sessionManager, session, global, doc,
                   completion, failedStage, closeCalls>>

\* session.close() rejects: close logs the error and its finally block
\* clears the fields (part_000 lines 120-126)
SessionCloseRejected ==
    /\ runPc = "closing"
    /\ closeFailed' = TRUE
    /\ session' = "null"
    /\ global' = "null"
    /\ doc' = "null"
    /\ outcome' = Settled
    /\ runPc' = "ended"
    /\ UNCHANGED <<outsideRun, fetchIssued, config, sessionManager, completion,
                   failedStage, closeCalls>>

RunNext ==
    \/ SessionCreated
    \/ CreateSessionThrows
    \/ OpenResolved
    \/ OpenRejected
    \/ OpenDocResolved
    \/ OpenDocRejected
    \/ DebugFieldsResolved
    \/ DebugFieldsRejected
    \/ MakeSelectionsCalled
    \/ ClearAllResolved
    \/ ClearAllRejected
    \/ CallSelectFieldValue
    \/ CreateObjectResolved
    \/ CreateObjectRejected
    \/ ValueFound
    \/ ValueNotFound
    \/ ListLayoutRejected
    \/ SelectionResolved
    \/ SelectionRejected
    \/ DestroyObjectResolved
    \/ DestroyObjectRejected
    \/ SelectFieldValueThrew
    \/ SelectFieldValueReturned
    \/ SelectionsDone
    \/ VerifiedActualSelections
    \/ MakeSelectionsResolved
    \/ MakeSelectionsRejected
    \/ GetPivotObjectResolved
    \/ ExtractDataRejected
    \/ PivotLayoutRejected
    \/ ExtractedWithoutFetch
    \/ FirstFetchIssued
    \/ ExtractDataResolved
    \/ SaveJsonResolved
    \/ SaveJsonRejected
    \/ SaveCsvResolved
    \/ SaveCsvRejected
    \/ ShutdownCallsClose
    \/ SessionCloseResolved
    \/ SessionCloseRejected

RunSpec == RunInit /\ [][RunNext]_vars

\* ------------------------------------- PivotExtractor.extractPivotDataSimple
\* the options of a call that passes none (lines 43-46)
DefaultOptions ==
    [pageSize |-> DefaultPageSize, maxPages |-> DefaultMaxPages,
     startRow |-> 0]

\* the hypercubes a layout can show
Cubes == [ qMode : {"EQ_DATA_MODE_PIVOT", "EQ_DATA_MODE_STRAIGHT"},
           qcy   : (0..MaxTotalRows) \cup {LargeTotalRows} ]

\* the qDataPages a layout can carry: none (absent or empty), or up to
\* MaxLayoutPages pages, with or without a matrix
LayoutPages ==
    SeqsUpTo({ [hasMatrix |-> FALSE, qMatrix |-> <<>>],
               [hasMatrix |-> TRUE, qMatrix |-> <<>>],
               [hasMatrix |-> TRUE, qMatrix |-> Matrix(0, 1)],
               [hasMatrix |-> TRUE, qMatrix |-> Matrix(1, 2)] },
             MaxLayoutPages)

\* allData after the forEach of lines 204-209: the rows of the pages that
\* have a matrix, page after page
RECURSIVE PushMatrices(_, _)
PushMatrices(data, pages) ==
    IF pages = <<>> THEN data
    ELSE PushMatrices(IF Head(pages).hasMatrix
                      THEN data \o Head(pages).qMatrix ELSE data,
                      Tail(pages))

\* the object returned from the layout's pages (lines 211-219)
SimpleResult(pages) ==
    LET data == PushMatrices(<<>>, pages)
    IN  [ data |-> data,
          metadata |-> [ totalRows     |-> Len(data),
                         extractedRows |-> Len(data) ] ]

\* this.extractPivotData(pivotObject) is called, without options; the
\* call starts with locals of its own
InvokeExtractPivotData ==
    /\ invocations' = invocations + 1
    /\ pc' = "getLayout"
    /\ options' = DefaultOptions
    /\ hypercube' \in Cubes
    /\ allData' = <<>>
    /\ currentRow' = 0
    /\ pagesProcessed' = 0
    /\ rowsToFetch' = 0
    /\ request' = NoRequest
    /\ exit' = "none"
    /\ fetchCount' = 0
    /\ abortedRetries' = 0
    /\ fallbackCount' = 0
    /\ onlyExact' = TRUE
    /\ onlyOneRow' = TRUE
    /\ onlyMismatch' = TRUE
    /\ scenario' = "p0"
    /\ firstTwoPages' = <<>>
    /\ lastFault' = NoFault
    /\ minShrunk' = 0
    /\ lastPage' = NoPage
    /\ pagesAppended' = 0
    /\ cancelRequested' = FALSE

SimpleInit ==
    /\ ExtractAtRest
    /\ FormatAtRest
    /\ InterceptAtRest
    /\ SelectAtRest
    /\ MakeSelAtRest
    /\ RunAtRest
    /\ CleanAtRest
    /\ simPc = "getLayout"
    /\ simLayout = NoLayout
    /\ simResult = Undefined
    /\ invocations = 0

\* getLayout resolves with data pages: their rows are returned
\* (lines 200-219)
SimpleLayoutWithPages ==
    /\ simPc = "getLayout"
    /\ \E pages \in LayoutPages \ {<<>>} :
         /\ simLayout' = [received |-> TRUE, qDataPages |-> pages]
         /\ simResult' = SimpleResult(pages)
    /\ simPc' = "returned"
    /\ UNCHANGED <<outsideSimple, extractVars, invocations>>

\* getLayout resolves without data pages: the else branch calls
\* extractPivotData inside the try block (lines 220-223)
SimpleLayoutWithoutPages ==
    /\ simPc = "getLayout"
    /\ simLayout' = [received |-> TRUE, qDataPages |-> <<>>]
    /\ InvokeExtractPivotData
    /\ simPc' = "awaitExtract"
    /\ UNCHANGED <<outsideSimple, simResult>>

\* getLayout rejects: the catch block calls extractPivotData (lines 225-228)
SimpleLayoutRejected ==
    /\ simPc = "getLayout"
    /\ InvokeExtractPivotData
    /\ simPc' = "awaitFallback"
    /\ UNCHANGED <<outsideSimple, simLayout, simResult>>

\* the call of the else branch resolves: its value is returned (line 222)
ExtractInTryResolved ==
    /\ simPc = "awaitExtract"
    /\ pc = "done"
    /\ simResult' = ReturnValue
    /\ simPc' = "returned"
    /\ UNCHANGED <<outsideSimple, extractVars, simLayout, invocations>>

\* the call of the else branch rejects inside the try block: the catch
\* block calls extractPivotData once more (lines 222-228)
ExtractInTryRejected ==
    /\ simPc = "awaitExtract"
    /\ pc = "thrown"
    /\ InvokeExtractPivotData
    /\ simPc' = "awaitFallback"
    /\ UNCHANGED <<outsideSimple, simLayout, simResult>>

\* the call of the catch block resolves: its value is returned (line 227)
FallbackResolved ==
    /\ simPc = "awaitFallback"
    /\ pc = "done"
    /\ simResult' = ReturnValue
    /\ simPc' = "returned"
    /\ UNCHANGED <<outsideSimple, extractVars, simLayout, invocations>>

\* the call of the catch block rejects: extractPivotDataSimple rejects
FallbackRejected ==
    /\ simPc = "awaitFallback"
    /\ pc = "thrown"
    /\ simPc' = "thrown"
    /\ UNCHANGED <<outsideSimple, extractVars, simLayout, simResult,
                   invocations>>

SimpleNext ==
    \/ SimpleLayoutWithPages
    \/ SimpleLayoutWithoutPages
    \/ SimpleLayoutRejected
    \/ ExtractInTryResolved
    \/ ExtractInTryRejected
    \/ FallbackResolved
    \/ FallbackRejected
    \/ LayoutResolved
    \/ LayoutRejected
    \/ LoopExit
    \/ IssueFirstAttempt
    \/ FirstAttemptPage
    \/ FirstAttemptNoData
    \/ FirstAttemptTooLarge
    \/ FirstAttemptNotPivot
    \/ FirstAttemptAborted
    \/ FirstAttemptOtherError
    \/ ReducedPage
    \/ ReducedNoData
    \/ ReducedError
    \/ StraightPage
    \/ StraightNoData
    \/ StraightError

SimpleSpec == SimpleInit /\ [][SimpleNext]_vars

\* ------------------------------------------- extractCleanPivot: paging loop
\* the row counts a layout can show: small cubes, and cubes of a whole
\* number of pages or one row more, up to past the safety limit
CleanTotals ==
    (0..MaxCleanSmall)
    \cup { CleanPageSize * k + e :
             k \in {1, 2, SafetyLimit - 1, SafetyLimit, SafetyLimit + 1},
             e \in 0..1 }

\* the window of the request for page currentPage (part_003 lines 100-110)
CleanWindow(page, total) ==
    LET startRow == page * CleanPageSize
        endRow   == Min(startRow + CleanPageSize - 1, total - 1)
    IN  [method |-> "getHyperCubeData", qTop |-> startRow, qLeft |-> 0,
         qHeight |-> endRow - startRow + 1, qWidth |-> totalCols]

\* getLayout has resolved and the loop is about to test its condition
\* (part_003 lines 87-97)
CleanInit ==
    /\ ExtractAtRest
    /\ FormatAtRest
    /\ InterceptAtRest
    /\ SelectAtRest
    /\ MakeSelAtRest
    /\ RunAtRest
    /\ SimpleAtRest
    /\ cleanPc = "loop"
    /\ cleanTotalRows \in CleanTotals
    /\ currentPage = 0
    /\ cleanRequest = NoRequest
    /\ cleanRows = 0
    /\ requestCount = 0

\* the while condition holds: the page is requested (lines 99-110)
CleanFetchPage ==
    /\ cleanPc = "loop"
    /\ currentPage * CleanPageSize < cleanTotalRows
    /\ cleanRequest' = CleanWindow(currentPage, cleanTotalRows)
    /\ requestCount' = requestCount + 1
    /\ cleanPc' = "awaitPage"
    /\ UNCHANGED <<outsideClean, cleanTotalRows, currentPage, cleanRows>>

\* the while condition is false: the loop is over (line 99)
CleanLoopExit ==
    /\ cleanPc = "loop"
    /\ ~(currentPage * CleanPageSize < cleanTotalRows)
    /\ cleanPc' = "done"
    /\ UNCHANGED <<outsideClean, cleanTotalRows, currentPage, cleanRequest,
                   cleanRows, requestCount>>

\* the rest of an iteration after its await: currentPage++ and the safety
\* break (lines 117-123)
CleanAdvance(pushed) ==
    /\ cleanRows' = cleanRows + pushed
    /\ currentPage' = currentPage + 1
    /\ cleanRequest' = NoRequest
    /\ cleanPc' = IF currentPage + 1 > SafetyLimit THEN "done" ELSE "loop"
    /\ UNCHANGED <<outsideClean, cleanTotalRows, requestCount>>

\* the request resolves with the rows of the window (lines 112-115)
CleanPageResolved ==
    /\ cleanPc = "awaitPage"
    /\ CleanAdvance(cleanRequest.qHeight)

\* the request resolves without a page or without a matrix: nothing is
\* pushed (line 112)
CleanPageEmpty ==
    /\ cleanPc = "awaitPage"
    /\ CleanAdvance(0)

\* the request rejects: the catch of extractCleanPivot ends the run
\* (lines 241-244)
CleanPageRejected ==
    /\ cleanPc = "awaitPage"
    /\ cleanPc' = "thrown"
    /\ cleanRequest' = NoRequest
    /\ UNCHANGED <<outsideClean, cleanTotalRows, currentPage, cleanRows,
                   requestCount>>

CleanNext ==
    \/ CleanFetchPage
    \/ CleanLoopExit
    \/ CleanPageResolved
    \/ CleanPageEmpty
    \/ CleanPageRejected

CleanSpec == CleanInit /\ [][CleanNext]_vars

\* ------------------------------------------------------------------ claims
Ceil(a, b) == (a + b - 1) \div b

Returned == pc = "done"

\* C1: the assembled data is gap-free and duplicate-free in original row
\* order: the i-th assembled row is the cube row startRow + i (rows counted
\* from 0), at every point of the extraction and in its result.
C1_RowOrder ==
    pc \in {"loop", "awaitFirst", "awaitReduced", "awaitStraight", "done"}
        => \A i \in 1..Len(allData) : allData[i] = options.startRow + (i - 1)

\* C2 as stated: with only full-window answers and startRow = 0 the result
\* has extractedRows = totalRows and pagesProcessed = ceil(totalRows/pageSize).
C2_CompleteAsStated ==
    (Returned /\ onlyExact /\ options.startRow = 0)
        => /\ ReturnValue.metadata.extractedRows = totalRows
           /\ ReturnValue.metadata.pagesProcessed
                  = Ceil(totalRows, options.pageSize)

\* C2 amended: with only full-window answers and startRow = 0, the result has
\* extractedRows = totalRows and pagesProcessed = ceil(totalRows/pageSize)
\* when that page count is within maxPages; otherwise it has
\* pagesProcessed = maxPages and extractedRows = maxPages * pageSize.
C2_CompleteWithinCap ==
    (Returned /\ onlyExact /\ options.startRow = 0)
        => IF Ceil(totalRows, options.pageSize) <= options.maxPages
           THEN /\ ReturnValue.metadata.extractedRows = totalRows
                /\ ReturnValue.metadata.pagesProcessed
                       = Ceil(totalRows, options.pageSize)
           ELSE /\ ReturnValue.metadata.extractedRows
                       = options.maxPages * options.pageSize
                /\ ReturnValue.metadata.pagesProcessed = options.maxPages

\* a fault-free extraction of several pages whose last page is partial
C2_Witness ==
    /\ Returned /\ onlyExact /\ options.startRow = 0
    /\ pagesProcessed >= 2
    /\ totalRows % options.pageSize # 0
    /\ Len(allData) = totalRows

\* C3: at every loop head the row cursor equals startRow plus the number of
\* rows assembled, i.e. every successful page advanced it by the rows returned.
C3_CursorTracksRows ==
    pc = "loop" => currentRow = options.startRow + Len(allData)

\* C4: every extraction eventually ends (a result is returned, or the layout
\* fault is rethrown), whatever the engine answers.
C4_Terminates == <>(pc \in {"done", "thrown"})

\* C5: a window that fails with the aborted fault is re-issued at most 3 times.
C5_AbortedRetryBounded == abortedRetries <= 3

\* C6: the number of fetch requests issued in one extraction never exceeds
\* maxPages.
C6_AttemptsWithinMaxPages == fetchCount <= options.maxPages

\* C7: with maxPages = N >= 1, startRow = 0, a cube of LargeTotalRows rows and
\* only one-row pages as answers, the result has pagesProcessed = N,
\* extractedRows = N and terminationReason CAPPED.
C7_CappedAfterNPages ==
    (Returned /\ onlyOneRow /\ options.startRow = 0
        /\ options.maxPages >= 1 /\ totalRows = LargeTotalRows)
        => /\ ReturnValue.metadata.pagesProcessed = options.maxPages
           /\ ReturnValue.metadata.extractedRows = options.maxPages
           /\ TerminationReason = "CAPPED"

\* C8: when the first two answers are pages and the third is a fatal fault,
\* the result holds exactly the rows of those two pages and its
\* terminationReason is ABORTED.
C8_PartialOnAbort ==
    (Returned /\ scenario = "p2fatal")
        => /\ ReturnValue.data = firstTwoPages
           /\ ReturnValue.metadata.extractedRows = Len(firstTwoPages)
           /\ TerminationReason = "ABORTED"

C10_SwitchAtMostOnce ==
    /\ fallbackCount <= 1
    /\ (fallbackCount >= 1 /\ pc = "awaitFirst")
           => request.method = "getHyperCubeData"

Awaiting == {"awaitFirst", "awaitReduced", "awaitStraight"}

\* C11: once a capacity fault has caused a reduced-size retry of height h',
\* every window requested afterwards has height <= h'.
C11_ShrinkSticky ==
    (minShrunk > 0 /\ request # NoRequest) => request.qHeight <= minShrunk

\* C12: a capacity fault on a window higher than the minimum (10 rows) is
\* followed by a retry of the same rows with a smaller height, and a capacity
\* fault ends the extraction only when the failing window is at the minimum.
C12_ShrinkUntilFloor ==
    [][ (pc \in Awaiting /\ lastFault' = "capacity")
          => /\ request.qHeight > MinPageSize
                  => /\ pc' = "awaitReduced"
                     /\ request'.qTop = request.qTop
                     /\ request'.qHeight < request.qHeight
             /\ pc' = "done" => request.qHeight <= MinPageSize ]_vars

\* C13: every window requested has height > 0 and does not reach past the
\* last row of the cube: qHeight <= totalRows - qTop.
C13_WindowInsideCube ==
    request # NoRequest
        => /\ request.qHeight > 0
           /\ request.qHeight <= totalRows - request.qTop

\* C14: while the layout mode is pivot and no mode switch has occurred, every
\* request is a getHyperCubePivotData call, the capacity retry included.
C14_CallShapeMatchesMode ==
    (request # NoRequest /\ hypercube.qMode = "EQ_DATA_MODE_PIVOT"
        /\ fallbackCount = 0)
        => request.method = "getHyperCubePivotData"

\* C15: a fault that is neither a capacity, a mode-mismatch nor the aborted
\* fault ends the extraction in the step that handles it: the rows assembled
\* are unchanged in the result and no request is outstanding or issued later.
C15_FatalStopsAtOnce ==
    /\ [](lastFault = "fatal" => (pc = "done" /\ request = NoRequest))
    /\ [][ (pc \in Awaiting /\ lastFault' = "fatal")
             => /\ pc' = "done"
                /\ request' = NoRequest
                /\ ReturnValue'.data = allData ]_vars

\* a fatal fault has ended an extraction that had already assembled rows
C15_Witness ==
    /\ Returned /\ lastFault = "fatal"
    /\ exit = "otherError"
    /\ Len(allData) > 0

\* C16: every result carries a terminationReason: COMPLETE exactly when the
\* cursor reached totalRows, CAPPED when the page cap stopped the loop,
\* ABORTED when a fault stopped it; never COMPLETE with extractedRows <
\* totalRows.
C16_TerminationStated ==
    Returned
        => /\ TerminationReason \in {"COMPLETE", "CAPPED", "ABORTED", "CANCELLED"}
           /\ TerminationReason = "COMPLETE" <=> currentRow >= totalRows
           /\ (exit = "loopCondition" /\ currentRow < totalRows)
                  => TerminationReason = "CAPPED"
           /\ exit \in {"otherError", "retryError", "straightError"}
                  => TerminationReason = "ABORTED"
           /\ ReturnValue.metadata.extractedRows < totalRows
                  => TerminationReason # "COMPLETE"

\* C17: no page-fetch fault makes extractPivotData throw: the step that
\* handles a fault of a first attempt or of either retry keeps the assembled
\* rows and does not throw, and the call throws only for a layout fault,
\* before any request.
C17_NoFaultEscapes ==
    /\ [](pc = "thrown" => (exit = "layoutError" /\ fetchCount = 0))
    /\ [][ (pc \in Awaiting /\ lastFault' # NoFault)
             => /\ pc' # "thrown"
                /\ allData' = allData
                /\ pc' = "done" => ReturnValue'.data = allData ]_vars

\* the fault of a reduced-size retry ended an extraction that returns rows
C17_Witness ==
    /\ Returned /\ exit = "retryError"
    /\ lastFault # NoFault
    /\ Len(ReturnValue.data) > 0

\* C18 as stated: a request is outstanding exactly at the await positions, and
\* the qTop of every appended page is greater than that of the page before.
C18_StrictlyIncreasingTops ==
    /\ [](request # NoRequest <=> pc \in Awaiting)
    /\ [][ pagesAppended' = pagesAppended + 1
             => request.qTop > lastPage.qTop ]_vars

\* C18 amended: a request is outstanding exactly at the await positions (one
\* at a time), the qTop of appended pages never decreases, and it is greater
\* than that of the page before whenever that page carried at least one row.
C18_SequentialNonDecreasingTops ==
    /\ [](request # NoRequest <=> pc \in Awaiting)
    /\ [][ pagesAppended' = pagesAppended + 1
             => /\ request.qTop >= lastPage.qTop
                /\ lastPage.rows >= 1 => request.qTop > lastPage.qTop ]_vars

\* a second page has been appended after a page that carried rows
C18_Witness ==
    /\ pagesAppended >= 2
    /\ lastPage.rows >= 1
    /\ Len(allData) > lastPage.rows

\* C19: once the caller has asked for the extraction to stop, no request is
\* issued and the result has terminationReason CANCELLED.
C19_CancelStops ==
    cancelRequested
        => /\ request = NoRequest
           /\ Returned => TerminationReason = "CANCELLED"

\* C20: pagesProcessed equals the number of pages appended and never exceeds
\* maxPages, during the extraction and in its result.
C20_PagesCounted ==
    /\ pagesProcessed = pagesAppended
    /\ pagesProcessed <= options.maxPages
    /\ Returned => /\ ReturnValue.metadata.pagesProcessed = pagesAppended
                   /\ ReturnValue.metadata.pagesProcessed <= options.maxPages

\* the page cap has stopped an extraction of several pages
C20_Witness ==
    /\ Returned /\ exit = "loopCondition"
    /\ pagesAppended >= 2
    /\ pagesProcessed = options.maxPages
    /\ currentRow < totalRows

\* C21: in every result of extractPivotData, whatever ended the loop,
\* metadata.extractedRows is the number of rows of the returned data array.
C21_ExtractedRowsIsLength ==
    Returned => ReturnValue.metadata.extractedRows = Len(ReturnValue.data)

\* a result returned after a truncated page: the rows are fewer than the
\* cursor has advanced
C21_Witness ==
    /\ Returned
    /\ Len(allData) >= 1
    /\ Len(allData) # currentRow - options.startRow

\* formatPivotData has returned
Formatted == fmtPc \in {"formatted", "formattedTwice"}

\* C22: for every extraction result given to formatPivotData,
\* summary.totalColumns is the number of headers produced and is the number
\* of dimension descriptors plus the number of measure descriptors, and
\* summary.totalRows is the number of rows produced.
C22_SummaryCounts ==
    Formatted =>
        /\ formattedData.summary.totalColumns = Len(formattedData.headers)
        /\ formattedData.summary.totalColumns
             = Len(extractedData.metadata.dimensions)
               + Len(extractedData.metadata.measures)
        /\ formattedData.summary.totalRows = Len(formattedData.rows)

C22_Witness ==
    /\ Formatted
    /\ Len(extractedData.metadata.dimensions) >= 1
    /\ Len(extractedData.metadata.measures) >= 1
    /\ Len(formattedData.rows) = 2

\* C23: the headers are the dimension descriptors, typed 'dimension', in
\* their order, followed by the measure descriptors, typed 'measure', in
\* their order, and the header at (0-based) position i has index i.
C23_HeaderOrder ==
    Formatted =>
        LET dimensions == extractedData.metadata.dimensions
            measures   == extractedData.metadata.measures
            headers    == formattedData.headers
        IN  /\ Len(headers) = Len(dimensions) + Len(measures)
            /\ \A i \in 1..Len(headers) :
                 /\ headers[i].index = i - 1
                 /\ i <= Len(dimensions) =>
                      /\ headers[i].type = "dimension"
                      /\ headers[i].name = dimensions[i].qFallbackTitle
                 /\ i > Len(dimensions) =>
                      /\ headers[i].type = "measure"
                      /\ headers[i].name
                           = measures[i - Len(dimensions)].qFallbackTitle

\* two dimensions of different names, then a measure
C23_Witness ==
    /\ Formatted
    /\ Len(extractedData.metadata.dimensions) = 2
    /\ extractedData.metadata.dimensions[1]
         # extractedData.metadata.dimensions[2]
    /\ Len(extractedData.metadata.measures) = 1
    /\ formattedData.headers[3].type = "measure"

\* C24: the cell at position j of a row is the field of the header at
\* position j; a row with fewer cells than headers gives a record without
\* the trailing fields; formatting ends without a fault for every row
\* length.
C24_ZipByPosition ==
    Formatted =>
        \A r \in 1..Len(extractedData.data) :
            LET row     == extractedData.data[r]
                record  == formattedData.rows[r].data
                headers == formattedData.headers
            IN  \A j \in 1..Len(headers) :
                  IF j <= Len(row)
                  THEN /\ headers[j].name \in DOMAIN record
                       /\ record[headers[j].name] = Field(row[j])
                  ELSE headers[j].name \notin DOMAIN record

RECURSIVE SplitFrom(_, _, _)
SplitFrom(text, separator, line) ==
    IF text = <<>> THEN <<line>>
    ELSE IF Head(text) = separator
         THEN <<line>> \o SplitFrom(Tail(text), separator, <<>>)
         ELSE SplitFrom(Tail(text), separator, Append(line, Head(text)))

Lines(text) == SplitFrom(text, LF, <<>>)

Chars(text) == { text[i] : i \in 1..Len(text) }

\* the lines of the exported text are the header line and one line per row,
\* each data line holding one quoted entry per header
CsvLinesAsStated ==
    LET headers == formattedData.headers
        rows    == formattedData.rows
        lines   == Lines(csv)
    IN  /\ Len(lines) = 1 + Len(rows)
        /\ lines[1] = Join([h \in 1..Len(headers) |-> headers[h].name], Comma)
        /\ \A r \in 1..Len(rows) :
             lines[r + 1]
               = Join([ h \in 1..Len(headers) |->
                          IF headers[h].name \in DOMAIN rows[r].data
                          THEN <<Quote>> \o rows[r].data[headers[h].name].text
                                         \o <<Quote>>
                          ELSE <<Quote, Quote>> ],
                      Comma)

\* no header name and no field text holds a line break
NoLineBreaks ==
    /\ \A h \in 1..Len(formattedData.headers) :
         LF \notin Chars(formattedData.headers[h].name)
    /\ \A r \in 1..Len(formattedData.rows) :
         \A n \in DOMAIN formattedData.rows[r].data :
           LF \notin Chars(formattedData.rows[r].data[n].text)

\* C26 as stated: exportToCSV produces exactly 1 + (number of rows) lines,
\* the header names joined by commas and then, per row, one quoted entry per
\* header in header order: the field's text, or "" when the row has no field
\* for the header.
C26_LinesAsStated == exported => CsvLinesAsStated

\* C26 as amended: the same, for results whose header names and field texts
\* hold no line break.
C26_LinesWithoutBreaks == (exported /\ NoLineBreaks) => CsvLinesAsStated

\* two rows under two headers of different names, one row lacking a field
C26_Witness ==
    /\ exported /\ NoLineBreaks
    /\ Len(formattedData.rows) = 2
    /\ Len(formattedData.headers) >= 2
    /\ formattedData.headers[1].name # formattedData.headers[2].name
    /\ \E r \in 1..2 :
         /\ formattedData.headers[1].name \in DOMAIN formattedData.rows[r].data
         /\ formattedData.headers[2].name \notin DOMAIN formattedData.rows[r].data

\* C27: after selectFieldValue(field, value) has returned, value is the only
\* selected value of the field, whatever was selected before, and making the
\* same selection again leaves the selection state as it was.
C27_SoleSelection ==
    selPc = "returned" =>
        /\ selected[selCall.fieldName] = {selCall.value}
        /\ callNo >= 2 => selected = selectedBefore

\* C28: per request, the first three aborted rejections each trigger one
\* retry, the fourth is handed to the caller as a rejection, and a rejection
\* with another code is handed on without a retry: never more than 3 retries.
C28_RetriesBounded ==
    \A r \in DOMAIN requests :
        LET q == requests[r]
        IN  /\ q.sends - 1 <= 3
            /\ q.state = "sent" => (q.aborted <= 3 /\ q.sends = q.aborted + 1)
            /\ q.state = "resolved" => q.sends = q.aborted + 1
            /\ (q.state = "rejected" /\ q.error = Aborted) =>
                   (q.aborted = 4 /\ q.sends = 4)
            /\ (q.state = "rejected" /\ q.error # Aborted) =>
                   q.sends = q.aborted + 1

\* one request rejected on its fourth aborted rejection, another rejected
\* with a different code after a retry
C28_Witness ==
    \E r1, r2 \in DOMAIN requests :
        /\ requests[r1].state = "rejected"
        /\ requests[r1].error = Aborted
        /\ requests[r1].sends = 4
        /\ requests[r2].state = "rejected"
        /\ requests[r2].error # Aborted
        /\ requests[r2].sends = 2

\* C29: when selectFieldValue completes, by returning or by throwing, every
\* list object it created has been destroyed.
C29_ListObjectsDestroyed ==
    selPc \in {"returned", "thrown"} => liveObjects = {}

\* C30: SessionManager.close is not invoked before the last stage is over
\* and is invoked exactly once by the time run ends; run ends with session,
\* global and doc all null, also when session.close() failed, and settles
\* as its stages decided: resolved, or rejected with the failed stage's error.
C30_ClosedOnceOutcomeKept ==
    /\ runPc \in {"initialize", "open", "openDoc", "debugFields",
                  "makeSelections", "awaitMakeSelections", "extractData",
                  "getPivotLayout", "fetching", "saveJson", "saveCsv",
                  "shutdown"} => closeCalls = 0
    /\ runPc = "closing" => closeCalls = 1
    /\ runPc = "ended" =>
         /\ closeCalls = 1
         /\ session = "null" /\ global = "null" /\ doc = "null"
         /\ outcome = IF failedStage = "none" THEN "resolved"
                      ELSE failedStage

\* run has ended after extractData failed and session.close() failed too
C30_Witness ==
    /\ runPc = "ended"
    /\ failedStage = "extractData"
    /\ closeFailed
    /\ closeCalls = 1

\* C32: in every step of extractPivotData currentRow does not decrease and
\* the data array keeps the rows it had, in place, growing only at its end;
\* an attempt that brings no page (a fault, or an answer without a page)
\* leaves currentRow, the data array and pagesProcessed as they were.
C32_OnlyForward ==
    [][ /\ currentRow' >= currentRow
        /\ Len(allData') >= Len(allData)
        /\ SubSeq(allData', 1, Len(allData)) = allData
        /\ (pc \in Awaiting /\ pc' # pc /\ pagesAppended' = pagesAppended)
             => UNCHANGED <<currentRow, allData, pagesProcessed>> ]_vars

\* a fault has been answered after a truncated reduced-size page was appended
C32_Witness ==
    /\ lastFault # NoFault
    /\ pagesAppended >= 1
    /\ minShrunk > 0
    /\ Len(allData) >= 1
    /\ Len(allData) < currentRow - options.startRow + minShrunk

\* C33: the retry that follows a capacity fault on a window (t, h) asks for
\* the same top row t and the same columns, with height max(10, floor(h / 2)).
C33_RetryWindow ==
    [][ (pc \in Awaiting /\ lastFault' = "capacity" /\ pc' \in Awaiting)
          => /\ request'.qTop = request.qTop
             /\ request'.qLeft = request.qLeft
             /\ request'.qWidth = request.qWidth
             /\ request'.qHeight
                  = IF request.qHeight \div 2 > 10
                    THEN request.qHeight \div 2 ELSE 10 ]_vars

\* a retry above the floor is outstanding: half of a window of more than 20 rows
C33_Witness ==
    /\ pc = "awaitReduced"
    /\ lastFault = "capacity"
    /\ request.qHeight > 10
    /\ request.qHeight = rowsToFetch \div 2

\* C36: a first attempt that resolves without a page ends the extraction in
\* that step: no request is outstanding or issued afterwards, pagesProcessed
\* and currentRow stay, and the rows gathered before are the rows returned.
C36_NoPageStops ==
    /\ [](exit = "noData" => (pc = "done" /\ request = NoRequest))
    /\ [][ (pc = "awaitFirst" /\ pc' # pc /\ lastFault' = NoFault
              /\ pagesAppended' = pagesAppended)
             => /\ pc' = "done"
                /\ UNCHANGED <<pagesProcessed, currentRow>>
                /\ ReturnValue'.data = allData ]_vars

\* the extraction ended on a first attempt without a page, after a page
C36_Witness ==
    /\ Returned
    /\ exit = "noData"
    /\ pagesProcessed >= 1
    /\ Len(allData) >= 1

\* C37: every record of formatPivotData holds exactly min(cells in the row,
\* headers) fields, one per header position, also when two descriptors carry
\* the same display name.
C37_FieldPerHeader ==
    Formatted =>
        \A r \in 1..Len(extractedData.data) :
            Cardinality(DOMAIN formattedData.rows[r].data)
                = Min(Len(extractedData.data[r]), Len(formattedData.headers))

\* the selection handed to selectFieldValue last is in place in the engine
LastAttemptApplied ==
    LET last == attempts[Len(attempts)]
    IN  selected[last.fieldName] = {last.value}

\* C35: makeSelections calls clearAll exactly once, before the first
\* selection; it hands the selections to selectFieldValue one at a time in
\* list order; a selection that fails ends makeSelections with the error
\* thrown, so that the loop goes on only past a selection that is in place,
\* no later selection is attempted, and the throw undoes nothing.
C35_ClearThenInOrder ==
    /\ [](/\ clearCalls <= 1
          /\ msPc \notin {"rest", "clearAll"} => clearCalls = 1
          /\ attempts # <<>> => clearCalls = 1
          /\ attempts = SubSeq(selections, 1, Len(attempts)))
    /\ [][ /\ (msPc = "awaitSelect" /\ msPc' = "loop") => LastAttemptApplied
           /\ (msPc = "awaitSelect" /\ selPc = "thrown" /\ msPc' # msPc)
                => msPc' = "thrown"
           /\ (msPc # "thrown" /\ msPc' = "thrown") => selected' = selected
           /\ msPc = "thrown" =>
                (attempts' = attempts /\ selected' = selected) ]_vars

\* the selections run asked for are in place in the engine
ConfiguredSelectionsApplied ==
    \A i \in 1..Len(ConfiguredSelections(config)) :
        LET sel == ConfiguredSelections(config)[i]
        IN  selected[sel.fieldName] = {sel.value}

\* C34: run makes no selection before the document is open, issues its
\* first request for a page only when both configured selections are in
\* place, and issues no request for a page at all when connecting or
\* selecting failed.
C34_StagesInOrder ==
    /\ [][ /\ (msPc = "rest" /\ msPc' # "rest") => doc = "set"
           /\ (~fetchIssued /\ fetchIssued') =>
                (doc = "set" /\ ConfiguredSelectionsApplied) ]_vars
    /\ [](failedStage \in {"initialize", "makeSelections"} => ~fetchIssued)

\* C31: extractPivotDataSimple returns the rows of the layout's data pages
\* when the layout carries at least one page and the result of the paginated
\* method otherwise, and it calls extractPivotData at most once.
C31_FallbackAtMostOnce ==
    /\ invocations <= 1
    /\ (simPc = "returned" /\ simLayout.qDataPages # <<>>)
         => /\ simResult.data = PushMatrices(<<>>, simLayout.qDataPages)
            /\ invocations = 0
    /\ (simPc = "returned" /\ simLayout.received
          /\ simLayout.qDataPages = <<>>)
         => (invocations >= 1 /\ simResult = ReturnValue)

\* C38: the paging loop of extractCleanPivot makes at most 100
\* getHyperCubeData requests whatever totalRows is, and the window of page k
\* starts at row k * 100 with height min(100, totalRows - k * 100).
C38_SafetyLimitHonoured ==
    /\ requestCount <= 100
    /\ cleanPc = "awaitPage" =>
         /\ cleanRequest.qTop = currentPage * 100
         /\ cleanRequest.qHeight
              = Min(100, cleanTotalRows - currentPage * 100)
====
